---- MODULE Spec2Model ----
(***************************************************************************)
(* APILens: ApisService (src/api/src/modules/apis/apis.service.ts) and the *)
(* Changelog collection (src/api/src/Schemas/changelog-schema.ts).         *)
(*                                                                         *)
(* The Api, ApiSnapshot and Changelog collections are the state.  Every    *)
(* `await` of a handler is a point where other handlers may run, so a      *)
(* handler is one action per awaited store or network operation.           *)
(* A store write that sits inside a try block may fail (the code defines   *)
(* what happens then); the store is otherwise taken to answer.             *)
(***************************************************************************)
EXTENDS Integers, FiniteSets, Bags, TLC

\* ------------------------------------------------------------- bounds
MaxApis == 1
NumWorkers == 2
MaxChecks == 2
MaxTicks == 1
MaxPaths == 0
MaxLogWrites == 3
MaxDueApis == 2
MaxPairApis == 2

\* ---------------------------------------------------------- constants
TickMs == 5 * 60 * 1000
NoTime == 0 - 1
NULL == "null"
NoVersion == ""

ApiIds == 1 .. MaxApis
Workers == 1 .. NumWorkers
Users == {"u1", "u2"}
Versions == {"1.0.0", "2.0.0"}
Frequencies == {"5m", "15m", "1h", "6h", "1d"}
FetchErrors == {"timeout of 10000ms exceeded"}
PersistError == "store write failed"
DetectError == "change detection failed"

\* An OpenAPI document as far as the service looks into it: info.version
\* (absent: NoVersion) and the rest of its content.
Docs == [version : Versions \cup {NoVersion}, paths : 0 .. MaxPaths]

VARIABLES
  apis,        \* Api collection: id -> document (its domain: the stored ids)
  used,        \* ids the store has handed out (an id is never reused)
  snapshots,   \* ApiSnapshot collection: bag of [apiId, version, spec]
  changelogs,  \* Changelog collection: bag of [apiId, previousVersion, newVersion]
  now,         \* the clock, ms
  pc,          \* checkApiForChanges: worker -> position
  loc,         \* checkApiForChanges: worker -> locals
  reg,         \* registerApi: position and locals of the call
  del,         \* deleteApi: the id, the deletes of Promise.all still to run, and
               \* whether registerApi had returned the id when deleteApi was called
  hist,        \* history: changed[id], the checks of id that returned hasChanges;
               \* checks, the calls of checkApiForChanges; regOk, the ids whose
               \* registerApi returned; deleted, the ids whose deleteApi, called
               \* after registerApi had returned, has returned; logWrites, the
               \* inserts into the Changelog collection that were attempted
  due          \* result of the last getApisToCheck

vars == <<apis, used, snapshots, changelogs, now, pc, loc, reg, del, hist, due>>

\* ------------------------------------------------------ store helpers
\* Model.findByIdAndUpdate(id, update): sets the fields of `update` on the
\* document with that id; a missing document is left missing (no upsert).
\* Mutant: the update is applied without the id filter.
findByIdAndUpdate_EveryDocument(coll, id, update) ==
  [i \in DOMAIN coll |->
     [f \in DOMAIN coll[i] |->
        IF f \in DOMAIN update THEN update[f] ELSE coll[i][f]]]

findByIdAndUpdate(coll, id, update) ==
  IF id \notin DOMAIN coll THEN coll
  ELSE [coll EXCEPT ![id] =
          [f \in DOMAIN coll[id] |->
             IF f \in DOMAIN update THEN update[f] ELSE coll[id][f]]]

\* Model.findByIdAndDelete(id).
findByIdAndDelete(coll, id) == [i \in DOMAIN coll \ {id} |-> coll[i]]

\* document.save() of a new document.
saveNew(coll, id, doc) ==
  [i \in DOMAIN coll \cup {id} |-> IF i = id THEN doc ELSE coll[i]]

\* Model.deleteMany({apiId: id}) on a bag of documents.
deleteMany(coll, id) ==
  LET keep == {e \in BagToSet(coll) : e.apiId # id}
  IN  [e \in keep |-> coll[e]]

\* Number of documents of a bag with the given apiId.
CountFor(coll, id) ==
  BagCardinality([e \in {x \in BagToSet(coll) : x.apiId = id} |-> coll[e]])

\* The documents of a bag with the given apiId.
DocsFor(coll, id) == {e \in BagToSet(coll) : e.apiId = id}

\* ------------------------------------------------------ getApisToCheck
getCheckIntervalMs(frequency) ==
  LET intervals == [f \in Frequencies |->
        CASE f = "5m"  -> 5 * 60 * 1000
          [] f = "15m" -> 15 * 60 * 1000
          [] f = "1h"  -> 60 * 60 * 1000
          [] f = "6h"  -> 6 * 60 * 60 * 1000
          [] f = "1d"  -> 24 * 60 * 60 * 1000]
  IN  IF frequency \in DOMAIN intervals THEN intervals[frequency]
      ELSE intervals["1h"]

\* Mutant: due only after more than the interval.
IsDue_Strict(api, t) ==
  IF api.lastChecked = NoTime THEN TRUE
  ELSE t - api.lastChecked > getCheckIntervalMs(api.checkFrequency)

\* The filter callback of getApisToCheck, for one active document.
IsDue(api, t) ==
  IF api.lastChecked = NoTime THEN TRUE
  ELSE LET timeSinceLastCheck == t - api.lastChecked
           checkInterval == getCheckIntervalMs(api.checkFrequency)
       IN  timeSinceLastCheck >= checkInterval

getApisToCheck(coll, t) ==
  {id \in DOMAIN coll : coll[id].isActive /\ IsDue(coll[id], t)}

\* ------------------------------------------------------- createSnapshot
\* The document createSnapshot inserts.
SnapshotDoc(apiId, spec) ==
  [apiId |-> apiId,
   version |-> IF spec.version # NoVersion THEN spec.version ELSE "unknown",
   spec |-> spec]

\* createSnapshot: the insert, or nothing when the insert fails (the error
\* is logged and swallowed).
createSnapshot(coll, apiId, spec, ok) ==
  IF ok THEN coll (+) SetToBag({SnapshotDoc(apiId, spec)}) ELSE coll

\* --------------------------------------------------------- detectChanges
\* ChangeDetectorService.detectChanges(oldSpec, newSpec, apiId).hasChanges:
\* any structural difference, or a changed version string alone.
detectChanges(oldSpec, newSpec) ==
  oldSpec.paths # newSpec.paths \/ oldSpec.version # newSpec.version

\* ------------------------------------------------------------- Init
NoDoc == [version |-> NoVersion, paths |-> 0]
NoLocals == [apiId |-> 0, latestSpec |-> NoDoc, version |-> NoVersion,
             changeCount |-> 0, newSpec |-> NoDoc, error |-> NULL]
RegIdle == [pc |-> "idle"]
DelIdle == [id |-> 0, todo |-> {}, registered |-> FALSE]
NoDue == [called |-> FALSE, result |-> {}]

Init ==
  /\ apis = [i \in {} |-> NULL]
  /\ used = {}
  /\ snapshots = EmptyBag
  /\ changelogs = EmptyBag
  /\ now = 0
  /\ pc = [w \in Workers |-> "idle"]
  /\ loc = [w \in Workers |-> NoLocals]
  /\ reg = RegIdle
  /\ del = DelIdle
  /\ hist = [changed |-> [i \in ApiIds |-> 0], checks |-> 0,
             regOk |-> {}, deleted |-> {}, logWrites |-> EmptyBag]
  /\ due = NoDue

\* The clock advances.
Tick ==
  /\ now < MaxTicks * TickMs
  /\ now' = now + TickMs
  /\ UNCHANGED <<apis, used, snapshots, changelogs, pc, loc, reg, del, hist, due>>

\* ---------------------------------------------------------- registerApi
\* What axios.get resolves or rejects with.
Responses ==
  [ok : {TRUE}, data : Docs] \cup [ok : {FALSE}, error : FetchErrors]

\* The document registerApi builds from the response.
NewApi(dto, userId, data, t) ==
  [userId |-> userId,
   version |-> data.version,
   latestSpec |-> data,
   lastChecked |-> t,
   checkFrequency |-> IF dto.checkFrequency # NULL THEN dto.checkFrequency ELSE "1h",
   healthStatus |-> "healthy",
   lastHealthCheck |-> t,
   lastError |-> NULL,
   changeCount |-> 0,
   isActive |-> TRUE]

\* Mutant: the document is not checked for info.version.
RegisterAccepts_AnyDocument(resp) == resp.ok

\* Whether registerApi goes on to save: the fetch resolved and the document
\* carries info.version.
RegisterAccepts(resp) == resp.ok /\ resp.data.version # NoVersion

\* registerApi(dto, userId) up to api.save(): the fetch settles with `resp`;
\* a rejected fetch, a document without info.version or a failed save throw,
\* and the catch block rethrows to the caller.
RegisterApi(dto, userId, resp, saveOk) ==
  /\ reg.pc \in {"idle", "failed", "returned"}
  /\ Cardinality(used) < MaxApis
  /\ IF RegisterAccepts(resp) /\ saveOk
     THEN LET id == CHOOSE i \in ApiIds \ used : \A j \in ApiIds \ used : i <= j
          IN  /\ apis' = saveNew(apis, id, NewApi(dto, userId, resp.data, now))
              /\ used' = used \cup {id}
              /\ reg' = [pc |-> "snapshot", id |-> id, data |-> resp.data]
     ELSE /\ reg' = [pc |-> "failed"]
          /\ UNCHANGED <<apis, used>>
  /\ UNCHANGED <<snapshots, changelogs, now, pc, loc, del, hist, due>>

\* createSnapshot of the initial document, then registerApi returns the DTO.
RegisterSnapshot(snapOk) ==
  /\ reg.pc = "snapshot"
  /\ snapshots' = createSnapshot(snapshots, reg.id, reg.data, snapOk)
  /\ reg' = [pc |-> "returned", id |-> reg.id]
  /\ hist' = [hist EXCEPT !.regOk = @ \cup {reg.id}]
  /\ UNCHANGED <<apis, used, changelogs, now, pc, loc, del, due>>

\* --------------------------------------------------- checkApiForChanges
\* The update documents of the five findByIdAndUpdate calls.
CheckingUpdate(t) == [healthStatus |-> "checking", lastHealthCheck |-> t]

\* Mutant: the health update keeps the stored error.
HealthyUpdate_KeepsLastError(t) ==
  [healthStatus |-> "healthy", lastChecked |-> t, lastHealthCheck |-> t]

HealthyUpdate(t) ==
  [healthStatus |-> "healthy", lastChecked |-> t, lastHealthCheck |-> t,
   lastError |-> NULL]

\* `l` are the locals: the document read at the start and the fetched one.
ChangeUpdate(l) ==
  [latestSpec |-> l.newSpec,
   version |-> IF l.newSpec.version # NoVersion THEN l.newSpec.version ELSE l.version,
   changeCount |-> l.changeCount + 1]

TouchUpdate(t) == [lastChecked |-> t]

\* Mutant: the catch block records the error and leaves healthStatus alone.
ErrorUpdate_KeepsStatus(l, t) == [lastHealthCheck |-> t, lastError |-> l.error]

\* Mutant: the catch block also stamps lastChecked.
ErrorUpdate_StampsLastChecked(l, t) ==
  [healthStatus |-> "error", lastHealthCheck |-> t, lastError |-> l.error,
   lastChecked |-> t]

ErrorUpdate(l, t) ==
  [healthStatus |-> "error", lastHealthCheck |-> t, lastError |-> l.error]

\* Mutant: the guard does not read isActive.
CheckRuns_IgnoresIsActive(coll, id) == id \in DOMAIN coll

\* Whether the guard at the top of checkApiForChanges lets the check run.
CheckRuns(coll, id) == id \in DOMAIN coll /\ coll[id].isActive

Goto(w, label) == pc' = [pc EXCEPT ![w] = label]

\* Mutant: the statements are outside the try block, so the rejection leaves
\* checkApiForChanges.
Throw_OutOfTheCall(w, message) ==
  /\ pc' = [pc EXCEPT ![w] = "rejected"]
  /\ loc' = [loc EXCEPT ![w].error = message]

\* A rejection inside the try block: control passes to the catch block with
\* the error.
Throw(w, message) ==
  /\ pc' = [pc EXCEPT ![w] = "catch"]
  /\ loc' = [loc EXCEPT ![w].error = message]
Return(w) ==
  /\ pc' = [pc EXCEPT ![w] = "idle"]
  /\ loc' = [loc EXCEPT ![w] = NoLocals]

\* checkApiForChanges(apiId) is called: findById and the guard.  The call
\* returns {hasChanges: false} at once for a missing or inactive target.
\* Concurrent calls are interchangeable, so a call takes the lowest free slot.
CheckStart(w, apiId) ==
  /\ pc[w] = "idle"
  /\ \A v \in Workers : v < w => pc[v] # "idle"
  /\ hist.checks < MaxChecks
  /\ hist' = [hist EXCEPT !.checks = @ + 1]
  /\ IF CheckRuns(apis, apiId)
     THEN /\ Goto(w, "mark")
          /\ loc' = [loc EXCEPT ![w] =
                       [apiId |-> apiId,
                        latestSpec |-> apis[apiId].latestSpec,
                        version |-> apis[apiId].version,
                        changeCount |-> apis[apiId].changeCount,
                        newSpec |-> NoDoc,
                        error |-> NULL]]
     ELSE UNCHANGED <<pc, loc>>
  /\ UNCHANGED <<apis, used, snapshots, changelogs, now, reg, del, due>>

\* "Update status to checking".
CheckMarkChecking(w, ok) ==
  /\ pc[w] = "mark"
  /\ IF ok
     THEN /\ apis' = findByIdAndUpdate(apis, loc[w].apiId, CheckingUpdate(now))
          /\ Goto(w, "fetch")
          /\ UNCHANGED loc
     ELSE /\ Throw(w, PersistError)
          /\ UNCHANGED apis
  /\ UNCHANGED <<used, snapshots, changelogs, now, reg, del, hist, due>>

\* axios.get(api.openApiUrl) settles with `resp`, detectChanges settles,
\* then "Update API health status".
CheckFetch(w, resp, detectOk, ok) ==
  /\ pc[w] = "fetch"
  /\ IF ~resp.ok
     THEN /\ Throw(w, resp.error)
          /\ UNCHANGED apis
     ELSE IF ~detectOk
     THEN /\ Throw(w, DetectError)
          /\ UNCHANGED apis
     ELSE IF ~ok
     THEN /\ Throw(w, PersistError)
          /\ UNCHANGED apis
     ELSE /\ apis' = findByIdAndUpdate(apis, loc[w].apiId, HealthyUpdate(now))
          /\ Goto(w, IF detectChanges(loc[w].latestSpec, resp.data)
                     THEN "update" ELSE "touch")
          /\ loc' = [loc EXCEPT ![w].newSpec = resp.data]
  /\ UNCHANGED <<used, snapshots, changelogs, now, reg, del, hist, due>>

\* "Update API with new spec and version".
CheckUpdateSpec(w, ok) ==
  /\ pc[w] = "update"
  /\ IF ok
     THEN /\ apis' = findByIdAndUpdate(apis, loc[w].apiId, ChangeUpdate(loc[w]))
          /\ Goto(w, "snapshot")
          /\ UNCHANGED loc
     ELSE /\ Throw(w, PersistError)
          /\ UNCHANGED apis
  /\ UNCHANGED <<used, snapshots, changelogs, now, reg, del, hist, due>>

\* "Create new snapshot", then return {hasChanges: true, ...}.
CheckSnapshot(w, snapOk) ==
  /\ pc[w] = "snapshot"
  /\ snapshots' = createSnapshot(snapshots, loc[w].apiId, loc[w].newSpec, snapOk)
  /\ hist' = [hist EXCEPT !.changed[loc[w].apiId] = @ + 1]
  /\ Return(w)
  /\ UNCHANGED <<apis, used, changelogs, now, reg, del, due>>

\* "Just update lastChecked if no changes", then return {hasChanges: false}.
CheckTouch(w, ok) ==
  /\ pc[w] = "touch"
  /\ IF ok
     THEN /\ apis' = findByIdAndUpdate(apis, loc[w].apiId, TouchUpdate(now))
          /\ Return(w)
     ELSE /\ Throw(w, PersistError)
          /\ UNCHANGED apis
  /\ UNCHANGED <<used, snapshots, changelogs, now, reg, del, hist, due>>

\* The catch block: "Update error status", then return {hasChanges: false}.
CheckCatch(w) ==
  /\ pc[w] = "catch"
  /\ apis' = findByIdAndUpdate(apis, loc[w].apiId, ErrorUpdate(loc[w], now))
  /\ Return(w)
  /\ UNCHANGED <<used, snapshots, changelogs, now, reg, del, hist, due>>

\* ------------------------------------------------------------ deleteApi
DeleteParts == {"api", "snapshots", "changelogs"}

\* deleteApi(id, userId) is called: findById and the two guards.  A missing
\* target (NotFoundException) or another user's (ForbiddenException) ends
\* the call; otherwise the three deletes of Promise.all are started.
DeleteApi(id, userId) ==
  /\ del.todo = {}
  /\ IF id \in DOMAIN apis /\ apis[id].userId = userId
     THEN del' = [id |-> id, todo |-> DeleteParts, registered |-> id \in hist.regOk]
     ELSE UNCHANGED del
  /\ UNCHANGED <<apis, used, snapshots, changelogs, now, pc, loc, reg, hist, due>>

\* One of the three deletes of "Clean up related data" runs; deleteApi
\* returns when the last of them has.
DeleteStep(part) ==
  /\ part \in del.todo
  /\ apis' = IF part = "api" THEN findByIdAndDelete(apis, del.id) ELSE apis
  /\ snapshots' = IF part = "snapshots" THEN deleteMany(snapshots, del.id) ELSE snapshots
  /\ changelogs' = IF part = "changelogs" THEN deleteMany(changelogs, del.id) ELSE changelogs
  /\ del' = [del EXCEPT !.todo = @ \ {part}]
  /\ hist' = IF del.todo = {part} /\ del.registered
             THEN [hist EXCEPT !.deleted = @ \cup {del.id}]
             ELSE hist
  /\ UNCHANGED <<used, now, pc, loc, reg, due>>

\* ----------------------------------------------------- testApiConnection
\* What axios.get settles with as far as testApiConnection looks: the body
\* of a resolved response is discarded.
TestResponses == [ok : {TRUE}] \cup [ok : {FALSE}, error : FetchErrors]

\* Mutant: the test stamps lastChecked as the check's health update does.
HealthyTestUpdate_StampsLastChecked(t) ==
  [healthStatus |-> "healthy", lastChecked |-> t, lastHealthCheck |-> t,
   lastError |-> NULL]

HealthyTestUpdate(t) ==
  [healthStatus |-> "healthy", lastHealthCheck |-> t, lastError |-> NULL]

UnhealthyTestUpdate(message, t) ==
  [healthStatus |-> "unhealthy", lastHealthCheck |-> t, lastError |-> message]

\* testApiConnection(id, userId): getApiById (NotFound, Forbidden), the
\* fetch, and the update of the health fields.  The update is by id with
\* values that do not depend on the document read, so the call is one step,
\* taken when the update runs.  The `healthy` update is inside the try: when
\* the store rejects it (~ok) the catch block writes `unhealthy` with the
\* store's message.
TestApiConnection(id, userId, resp, ok) ==
  /\ id \in DOMAIN apis
  /\ apis[id].userId = userId
  /\ apis' = findByIdAndUpdate(apis, id,
               IF ~resp.ok THEN UnhealthyTestUpdate(resp.error, now)
               ELSE IF ~ok THEN UnhealthyTestUpdate(PersistError, now)
               ELSE HealthyTestUpdate(now))
  /\ UNCHANGED <<used, snapshots, changelogs, now, pc, loc, reg, del, hist, due>>

\* ------------------------------------------------------- toggleApiStatus
\* toggleApiStatus(id, userId): findById (NotFound, Forbidden), then save()
\* of the negated isActive.
ToggleApiStatus(id, userId) ==
  /\ id \in DOMAIN apis
  /\ apis[id].userId = userId
  /\ apis' = [apis EXCEPT ![id].isActive = ~@]
  /\ UNCHANGED <<used, snapshots, changelogs, now, pc, loc, reg, del, hist, due>>

\* ------------------------------------------------------------- Spec
Dtos == [checkFrequency : {"5m"}]

Next ==
  \/ Tick
  \/ \E dto \in Dtos, resp \in Responses, saveOk \in BOOLEAN :
        RegisterApi(dto, "u1", resp, saveOk)
  \/ \E snapOk \in BOOLEAN : RegisterSnapshot(snapOk)
  \/ \E w \in Workers, id \in ApiIds : CheckStart(w, id)
  \/ \E w \in Workers, ok \in BOOLEAN : CheckMarkChecking(w, ok)
  \/ \E w \in Workers, resp \in Responses, detectOk \in BOOLEAN, ok \in BOOLEAN :
        CheckFetch(w, resp, detectOk, ok)
  \/ \E w \in Workers, ok \in BOOLEAN : CheckUpdateSpec(w, ok)
  \/ \E w \in Workers, snapOk \in BOOLEAN : CheckSnapshot(w, snapOk)
  \/ \E w \in Workers, ok \in BOOLEAN : CheckTouch(w, ok)
  \/ \E w \in Workers : CheckCatch(w)
  \/ \E id \in ApiIds, userId \in Users : DeleteApi(id, userId)
  \/ \E part \in DeleteParts : DeleteStep(part)
  \/ \E id \in ApiIds, userId \in Users, resp \in TestResponses, ok \in BOOLEAN :
       TestApiConnection(id, userId, resp, ok)
  \/ \E id \in ApiIds, userId \in Users : ToggleApiStatus(id, userId)

Spec == Init /\ [][Next]_vars

\* ------------------------------------------- the Changelog collection
\* The fields of a Changelog document that the unique index reads.
LogEntries ==
  [apiId : ApiIds,
   previousVersion : Versions \cup {NoVersion},
   newVersion : Versions \cup {NoVersion}]

\* Mutant: the collection has no unique index.
ChangelogInsert_NoUniqueIndex(coll, entry) ==
  IF entry.previousVersion = NoVersion \/ entry.newVersion = NoVersion THEN coll
  ELSE coll (+) SetToBag({entry})

\* An insert into the Changelog collection: refused when a required field
\* is missing, and refused by the unique index on
\* (apiId, previousVersion, newVersion) when the triple is stored already.
ChangelogInsert(coll, entry) ==
  IF entry.previousVersion = NoVersion \/ entry.newVersion = NoVersion THEN coll
  ELSE IF \E e \in BagToSet(coll) :
            /\ e.apiId = entry.apiId
            /\ e.previousVersion = entry.previousVersion
            /\ e.newVersion = entry.newVersion
       THEN coll
       ELSE coll (+) SetToBag({entry})

\* A writer inserts `entry`.
ChangelogCreate(entry) ==
  /\ BagCardinality(hist.logWrites) < MaxLogWrites
  /\ changelogs' = ChangelogInsert(changelogs, entry)
  /\ hist' = [hist EXCEPT !.logWrites = @ (+) SetToBag({entry})]
  /\ UNCHANGED <<apis, used, snapshots, now, pc, loc, reg, del, due>>

\* changelogModel.deleteMany({apiId: id}), as deleteApi issues it.
ChangelogDeleteMany(id) ==
  /\ changelogs' = deleteMany(changelogs, id)
  /\ UNCHANGED <<apis, used, snapshots, now, pc, loc, reg, del, hist, due>>

NextChangelog ==
  \/ \E entry \in LogEntries : ChangelogCreate(entry)
  \/ \E id \in ApiIds : ChangelogDeleteMany(id)

SpecChangelog == Init /\ [][NextChangelog]_vars

\* ------------------------------------------- getApisToCheck on its own
DueIds == 1 .. MaxDueApis
DueFrequencies == Frequencies \cup {"2h", NULL}
DueLastChecked == {NoTime, TickMs}
DueNow ==
  {TickMs + m * 60 * 1000 + d : m \in {5, 15, 60, 360, 1440}, d \in {0 - 1, 0, 1}}

\* A stored Api document with the fields getApisToCheck reads set freely.
DueDoc(isActive, lastChecked, checkFrequency) ==
  [NewApi([checkFrequency |-> "1h"], "u1", [version |-> "1.0.0", paths |-> 0], 0)
     EXCEPT !.isActive = isActive,
            !.lastChecked = lastChecked,
            !.checkFrequency = checkFrequency]

DueDocs ==
  {DueDoc(a, l, f) : a \in BOOLEAN, l \in DueLastChecked, f \in DueFrequencies}

InitDue ==
  /\ \E S \in SUBSET DueIds : apis \in [S -> DueDocs]
  /\ now \in DueNow
  /\ used = DOMAIN apis
  /\ snapshots = EmptyBag
  /\ changelogs = EmptyBag
  /\ pc = [w \in Workers |-> "idle"]
  /\ loc = [w \in Workers |-> NoLocals]
  /\ reg = RegIdle
  /\ del = DelIdle
  /\ hist = [changed |-> [i \in ApiIds |-> 0], checks |-> 0,
             regOk |-> {}, deleted |-> {}, logWrites |-> EmptyBag]
  /\ due = NoDue

\* getApisToCheck() is called and returns.
GetApisToCheck ==
  /\ ~due.called
  /\ due' = [called |-> TRUE, result |-> getApisToCheck(apis, now)]
  /\ UNCHANGED <<apis, used, snapshots, changelogs, now, pc, loc, reg, del, hist>>

NextDue == GetApisToCheck

SpecDue == InitDue /\ [][NextDue]_vars

\* ------------------------------------------- checks of several targets
PairIds == 1 .. MaxPairApis

\* The store after registerApi has returned for every target of PairIds:
\* each has its document as NewApi built it and its baseline Snapshot.
InitPair ==
  /\ \E data \in [PairIds -> {d \in Docs : d.version # NoVersion}] :
       /\ apis = [id \in PairIds |->
                    NewApi([checkFrequency |-> "5m"], "u1", data[id], 0)]
       /\ snapshots = SetToBag({SnapshotDoc(id, data[id]) : id \in PairIds})
  /\ used = PairIds
  /\ changelogs = EmptyBag
  /\ now = 0
  /\ pc = [w \in Workers |-> "idle"]
  /\ loc = [w \in Workers |-> NoLocals]
  /\ reg = [pc |-> "returned", id |-> MaxPairApis]
  /\ del = DelIdle
  /\ hist = [changed |-> [i \in PairIds |-> 0], checks |-> 0,
             regOk |-> PairIds, deleted |-> {}, logWrites |-> EmptyBag]
  /\ due = NoDue

NextPair ==
  \/ Tick
  \/ \E w \in Workers, apiId \in PairIds : CheckStart(w, apiId)
  \/ \E w \in Workers, ok \in BOOLEAN : CheckMarkChecking(w, ok)
  \/ \E w \in Workers, resp \in Responses, detectOk \in BOOLEAN, ok \in BOOLEAN :
       CheckFetch(w, resp, detectOk, ok)
  \/ \E w \in Workers, ok \in BOOLEAN : CheckUpdateSpec(w, ok)
  \/ \E w \in Workers, snapOk \in BOOLEAN : CheckSnapshot(w, snapOk)
  \/ \E w \in Workers, ok \in BOOLEAN : CheckTouch(w, ok)
  \/ \E w \in Workers : CheckCatch(w)

SpecPair == InitPair /\ [][NextPair]_vars

\* =============================================================== claims
\* The checks of target `id` that are between their first and last step.
InFlight(id) == {w \in Workers : pc[w] # "idle" /\ loc[w].apiId = id}

\* Worker w takes the step from position `from` to position `to`.
Step(w, from, to) == pc[w] = from /\ pc'[w] = to

\* C1: a call of checkApiForChanges for a target whose healthStatus is
\* `checking` is skipped: it does not go on to the fetch and the writes.
C1_SecondTriggerSkipped ==
  [][\A w \in Workers :
       Step(w, "idle", "mark") => apis[loc'[w].apiId].healthStatus # "checking"]_vars

\* C2: when no check of a target is in flight, its changeCount is the number
\* of its checks that returned hasChanges = true.
C2_ChangeCountCountsChanges ==
  \A id \in DOMAIN apis :
    InFlight(id) = {} => apis[id].changeCount = hist.changed[id]

\* C3: no step of a check whose fetch fails writes a Snapshot or a
\* ChangelogEntry or changes the target's lastChecked, latestSpec, version or
\* changeCount, and its last step leaves the target with healthStatus `error`
\* and the fetch's error message in lastError.
KeepsCheckResult(id) ==
  id \in DOMAIN apis /\ id \in DOMAIN apis' =>
    /\ apis'[id].lastChecked = apis[id].lastChecked
    /\ apis'[id].latestSpec = apis[id].latestSpec
    /\ apis'[id].version = apis[id].version
    /\ apis'[id].changeCount = apis[id].changeCount

C3_FetchFailure ==
  [][\A w \in Workers :
       /\ (Step(w, "idle", "mark") \/ Step(w, "mark", "fetch")
             \/ (Step(w, "fetch", "catch") /\ loc'[w].error \in FetchErrors)
             \/ (Step(w, "catch", "idle") /\ loc[w].error \in FetchErrors))
          => /\ KeepsCheckResult(IF pc[w] = "idle" THEN loc'[w].apiId ELSE loc[w].apiId)
             /\ snapshots' = snapshots
             /\ changelogs' = changelogs
             /\ DOMAIN apis' = DOMAIN apis
       /\ (Step(w, "catch", "idle") /\ loc[w].error \in FetchErrors
             /\ loc[w].apiId \in DOMAIN apis)
          => /\ apis'[loc[w].apiId].healthStatus = "error"
             /\ apis'[loc[w].apiId].lastError = loc[w].error]_vars

\* C3 witness: a check whose fetch failed has finished, after a check time
\* had been stored earlier.
C3_Witness ==
  \E id \in DOMAIN apis :
    /\ apis[id].healthStatus = "error"
    /\ apis[id].lastError \in FetchErrors
    /\ apis[id].lastChecked < now
    /\ apis[id].lastHealthCheck = now
    /\ InFlight(id) = {}

\* C4: getApisToCheck returns exactly the active targets that have no
\* lastChecked or whose lastChecked is at least their interval before now,
\* the interval being 5, 15, 60, 360 or 1440 minutes for 5m, 15m, 1h, 6h, 1d
\* and 60 minutes for any other or no frequency.
IntervalMinutes(frequency) ==
  CASE frequency = "5m" -> 5
    [] frequency = "15m" -> 15
    [] frequency = "1h" -> 60
    [] frequency = "6h" -> 360
    [] frequency = "1d" -> 1440
    [] OTHER -> 60

C5_SnapshotPerChange ==
  [][\A w \in Workers :
       Step(w, "snapshot", "idle") =>
         /\ hist'.changed[loc[w].apiId] = hist.changed[loc[w].apiId] + 1
         /\ CountFor(snapshots', loc[w].apiId) = CountFor(snapshots, loc[w].apiId) + 1
         /\ \E e \in DocsFor(snapshots', loc[w].apiId) : e.spec = loc[w].newSpec]_vars

\* C6: a target with a check that returned hasChanges = true, and that is not
\* being deleted, has a ChangelogEntry.
C6_ChangelogPerChange ==
  \A id \in DOMAIN apis :
    del.id # id /\ hist.changed[id] > 0 => CountFor(changelogs, id) >= 1

\* C7: the Changelog collection holds at most one document for any triple
\* (apiId, previousVersion, newVersion).
C7_UniqueTransition ==
  \A e \in BagToSet(changelogs) :
    /\ CopiesIn(e, changelogs) = 1
    /\ \A f \in BagToSet(changelogs) :
         (f.apiId = e.apiId /\ f.previousVersion = e.previousVersion
            /\ f.newVersion = e.newVersion) => f = e

\* C7 witness: the same triple was inserted more than once and is stored once.
C7_Witness ==
  \E e \in BagToSet(changelogs) :
    CopiesIn(e, hist.logWrites) >= 2 /\ CopiesIn(e, changelogs) = 1

\* C8: a target whose registerApi has returned has at least one Snapshot
\* until its deletion begins.
C8_BaselineSnapshot ==
  \A id \in hist.regOk :
    id \in DOMAIN apis /\ del.id # id => CountFor(snapshots, id) >= 1

\* C9: a call of registerApi whose fetch fails or whose document has no
\* info.version fails to the caller, and a call that fails to the caller
\* leaves the Api and ApiSnapshot collections as they were.
C9_FailedRegistration ==
  [][\A dto \in Dtos, userId \in Users, resp \in Responses, saveOk \in BOOLEAN :
       RegisterApi(dto, userId, resp, saveOk) =>
         /\ (~resp.ok \/ resp.data.version = NoVersion) => reg'.pc = "failed"
         /\ reg'.pc = "failed" =>
              apis' = apis /\ snapshots' = snapshots /\ used' = used]_vars

\* C9 witness: a registration has failed and nothing is stored.
C9_Witness ==
  reg.pc = "failed" /\ DOMAIN apis = {} /\ snapshots = EmptyBag

\* C10: once deleteApi has returned for a target, no Snapshot and no
\* ChangelogEntry refers to it.
C10_NoOrphans ==
  \A id \in hist.deleted :
    CountFor(snapshots, id) = 0 /\ CountFor(changelogs, id) = 0

\* C11: a check whose fetch or whose change detection fails is not rejected
\* to its caller: the failure takes it to the catch block, from which it
\* returns without hasChanges, having written no Snapshot and no
\* ChangelogEntry and having left the target with healthStatus `error` and
\* the failure's message in lastError.
CheckFailures == FetchErrors \cup {DetectError}

C11_FailuresAreReturned ==
  [][\A w \in Workers :
       /\ (pc[w] = "fetch" /\ pc'[w] \notin {"fetch", "update", "touch"})
          => pc'[w] = "catch" /\ loc'[w].error # NULL
       /\ (pc[w] = "catch" /\ loc[w].error \in CheckFailures /\ pc'[w] # "catch")
          => /\ pc'[w] = "idle"
             /\ hist'.changed = hist.changed
             /\ snapshots' = snapshots
             /\ changelogs' = changelogs
             /\ loc[w].apiId \in DOMAIN apis =>
                  /\ apis'[loc[w].apiId].healthStatus = "error"
                  /\ apis'[loc[w].apiId].lastError = loc[w].error]_vars

\* C11 witness: a check whose change detection failed has returned.
C11_Witness ==
  \E id \in DOMAIN apis :
    /\ apis[id].healthStatus = "error"
    /\ apis[id].lastError = DetectError
    /\ InFlight(id) = {}
    /\ hist.checks > 0

\* C12: a step of a check of one target leaves every other target's
\* document, Snapshots and ChangelogEntries as they were, and leaves the
\* position and the locals of every other check as they were, so a check
\* that runs beside a failing check of another target proceeds as it would
\* alone.
SameDocsFor(coll, coll2, id) ==
  \A e \in BagToSet(coll) \cup BagToSet(coll2) :
    e.apiId = id => CopiesIn(e, coll2) = CopiesIn(e, coll)

C12_ChecksAreIndependent ==
  [][\A w \in Workers :
       pc'[w] # pc[w] =>
         LET x == IF pc[w] = "idle" THEN loc'[w].apiId ELSE loc[w].apiId
         IN  /\ \A y \in DOMAIN apis \ {x} :
                  /\ y \in DOMAIN apis'
                  /\ apis'[y] = apis[y]
                  /\ SameDocsFor(snapshots, snapshots', y)
                  /\ SameDocsFor(changelogs, changelogs', y)
             /\ \A v \in Workers \ {w} : pc'[v] = pc[v] /\ loc'[v] = loc[v]]_vars

\* C12 witness: a check of one target is in its catch block while a check of
\* another target, whose fetch succeeded, is about to write its Snapshot.
C12_Witness ==
  \E w, v \in Workers :
    /\ pc[w] = "catch"
    /\ pc[v] = "snapshot"
    /\ loc[w].apiId # loc[v].apiId
    /\ apis[loc[v].apiId].healthStatus = "healthy"
    /\ apis[loc[v].apiId].changeCount = 1

\* C13: a check of a registered target with a baseline Snapshot that returns
\* after one of its store writes failed (an update of the target, or the
\* insert of the Snapshot of a versioned document) leaves the target with
\* healthStatus `error` and lastError set.
C13_PersistenceErrorDegrades ==
  [][\A w \in Workers :
       (/\ \/ Step(w, "snapshot", "idle") /\ snapshots' = snapshots
           \/ Step(w, "catch", "idle") /\ loc[w].error = PersistError
        /\ loc[w].apiId \in DOMAIN apis'
        /\ loc[w].apiId \in hist.regOk
        /\ CountFor(snapshots, loc[w].apiId) >= 1
        /\ loc[w].newSpec.version # NoVersion)
       => /\ apis'[loc[w].apiId].healthStatus = "error"
          /\ apis'[loc[w].apiId].lastError # NULL]_vars

\* C15: when a check writes the fetched document, its version and the
\* incremented changeCount to the target, the Snapshot of that document is
\* stored already.
C15_SnapshotBeforeTargetUpdate ==
  [][\A w \in Workers :
       (/\ Step(w, "update", "snapshot")
        /\ loc[w].apiId \in DOMAIN apis'
        /\ loc[w].apiId \in hist.regOk)
       => \E e \in DocsFor(snapshots, loc[w].apiId) : e.spec = loc[w].newSpec]_vars

\* C16: when a check returns that ran alone on a registered target that has
\* its baseline Snapshot and whose stored document was written by an earlier check, and that fetched that
\* same (versioned) document, the Snapshot of the document exists and the stored document is
\* the fetched one.
C16_RerunReconciles ==
  [][\A w \in Workers :
       (/\ Step(w, "touch", "idle")
        /\ loc[w].apiId \in DOMAIN apis'
        /\ InFlight(loc[w].apiId) = {w}
        /\ del.id # loc[w].apiId
        /\ loc[w].apiId \in hist.regOk
        /\ CountFor(snapshots, loc[w].apiId) >= 1
        /\ loc[w].newSpec.version # NoVersion
        /\ apis[loc[w].apiId].changeCount > 0
        /\ apis[loc[w].apiId].latestSpec = loc[w].newSpec)
       => /\ apis'[loc[w].apiId].latestSpec = loc[w].newSpec
          /\ \E e \in DocsFor(snapshots', loc[w].apiId) : e.spec = loc[w].newSpec]_vars

\* C17: a new target is `healthy`; a target's healthStatus changes only from
\* healthy, unhealthy or error to `checking` when a check marks it, from
\* `checking` to healthy by the check's health update, to error by the catch
\* block of a check, and to healthy or unhealthy by testApiConnection.
C17_HealthStateMachine ==
  [][/\ \A id \in DOMAIN apis' \ DOMAIN apis : apis'[id].healthStatus = "healthy"
     /\ \A id \in DOMAIN apis \cap DOMAIN apis' :
          LET a == apis[id].healthStatus
              b == apis'[id].healthStatus
          IN  a # b =>
                \/ /\ b = "checking"
                   /\ a \in {"healthy", "unhealthy", "error"}
                   /\ \E w \in Workers : Step(w, "mark", "fetch") /\ loc[w].apiId = id
                \/ /\ a = "checking"
                   /\ b = "healthy"
                   /\ \E w \in Workers :
                        pc[w] = "fetch" /\ pc'[w] # pc[w] /\ loc[w].apiId = id
                \/ /\ b = "error"
                   /\ \E w \in Workers : Step(w, "catch", "idle") /\ loc[w].apiId = id
                \/ /\ b \in {"healthy", "unhealthy"}
                   /\ pc' = pc]_vars

\* C18: a check whose fetched document has no info.version does not go on
\* as a successful fetch: it writes neither `healthy` nor the document.
C18_MissingVersionFails ==
  [][\A w \in Workers :
       (pc[w] = "fetch" /\ pc'[w] \in {"update", "touch"}
          /\ loc[w].apiId \in hist.regOk)
       => loc'[w].newSpec.version # NoVersion]_vars

\* C14: an inactive target is not among the targets getApisToCheck returns;
\* a call of checkApiForChanges for it returns at once and changes nothing;
\* a check that is in flight when its target is inactive still applies each
\* of its writes.
WritesOf(w, id) ==
  /\ (pc[w] = "fetch" /\ pc'[w] \in {"update", "touch"})
     => /\ apis'[id].healthStatus = "healthy"
        /\ apis'[id].lastChecked = now
  /\ Step(w, "update", "snapshot")
     => /\ apis'[id].latestSpec = loc[w].newSpec
        /\ apis'[id].changeCount = loc[w].changeCount + 1
  /\ Step(w, "touch", "idle") => apis'[id].lastChecked = now
  /\ Step(w, "catch", "idle")
     => /\ apis'[id].healthStatus = "error"
        /\ apis'[id].lastError = loc[w].error

C14_DeactivationStopsScheduling ==
  [][/\ \A id \in DOMAIN apis :
          ~apis[id].isActive => id \notin getApisToCheck(apis, now)
     /\ \A w \in Workers :
          Step(w, "idle", "mark") => apis[loc'[w].apiId].isActive
     /\ hist'.checks # hist.checks =>
          /\ apis' = apis /\ snapshots' = snapshots /\ changelogs' = changelogs
          /\ (\A id \in DOMAIN apis : ~apis[id].isActive) => pc' = pc /\ loc' = loc
     /\ \A w \in Workers :
          (/\ pc[w] # "idle"
           /\ pc'[w] # pc[w]
           /\ loc[w].apiId \in DOMAIN apis
           /\ ~apis[loc[w].apiId].isActive)
          => loc[w].apiId \in DOMAIN apis' /\ WritesOf(w, loc[w].apiId)]_vars

\* C14 witness: a check of an inactive target is in flight and about to write
\* its Snapshot, having stored the fetched document.
C14_Witness ==
  \E w \in Workers :
    /\ pc[w] = "snapshot"
    /\ loc[w].apiId \in DOMAIN apis
    /\ ~apis[loc[w].apiId].isActive
    /\ apis[loc[w].apiId].latestSpec = loc[w].newSpec
    /\ getApisToCheck(apis, now) = {}
    /\ now > apis[loc[w].apiId].lastChecked

\* C19: the health update of a check that found no change sets healthStatus
\* `healthy`, lastChecked and lastHealthCheck to the time of the update and
\* lastError to null; its last update sets lastChecked again; neither
\* changes latestSpec, version or changeCount, and neither writes a Snapshot
\* or a ChangelogEntry.
KeepsStoredSpec(id) ==
  /\ apis'[id].latestSpec = apis[id].latestSpec
  /\ apis'[id].version = apis[id].version
  /\ apis'[id].changeCount = apis[id].changeCount
  /\ snapshots' = snapshots
  /\ changelogs' = changelogs

C19_NoChangeCheck ==
  [][\A w \in Workers :
       LET id == loc[w].apiId
       IN  /\ (Step(w, "fetch", "touch") /\ id \in DOMAIN apis)
              => /\ id \in DOMAIN apis'
                 /\ apis'[id].healthStatus = "healthy"
                 /\ apis'[id].lastChecked = now
                 /\ apis'[id].lastHealthCheck = now
                 /\ apis'[id].lastError = NULL
                 /\ KeepsStoredSpec(id)
           /\ (Step(w, "touch", "idle") /\ id \in DOMAIN apis)
              => /\ id \in DOMAIN apis'
                 /\ apis'[id].lastChecked = now
                 /\ apis'[id].healthStatus = apis[id].healthStatus
                 /\ apis'[id].lastHealthCheck = apis[id].lastHealthCheck
                 /\ apis'[id].lastError = apis[id].lastError
                 /\ KeepsStoredSpec(id)]_vars

\* C19 witness: a check that found no change has made its health update on a
\* target that carried an error, and is about to touch lastChecked.
C19_Witness ==
  \E w \in Workers :
    /\ pc[w] = "touch"
    /\ loc[w].apiId \in DOMAIN apis
    /\ hist.checks = 2
    /\ InFlight(loc[w].apiId) = {w}
    /\ apis[loc[w].apiId].healthStatus = "healthy"
    /\ apis[loc[w].apiId].lastError = NULL
    /\ apis[loc[w].apiId].lastChecked = now
    /\ apis[loc[w].apiId].changeCount = 0
    /\ CountFor(snapshots, loc[w].apiId) = 1

TestedFields == {"healthStatus", "lastHealthCheck", "lastError"}

C21_ConnectionTestFrame ==
  [][\A id \in ApiIds, userId \in Users, resp \in TestResponses, ok \in BOOLEAN :
       (pc' = pc /\ reg' = reg /\ del' = del
          /\ TestApiConnection(id, userId, resp, ok)) =>
         /\ DOMAIN apis' = DOMAIN apis
         /\ \A i \in DOMAIN apis \ {id} : apis'[i] = apis[i]
         /\ \A f \in DOMAIN apis[id] \ TestedFields : apis'[id][f] = apis[id][f]
         /\ apis'[id].lastHealthCheck = now
         /\ IF resp.ok /\ ok
            THEN apis'[id].healthStatus = "healthy" /\ apis'[id].lastError = NULL
            ELSE /\ apis'[id].healthStatus = "unhealthy"
                 /\ apis'[id].lastError = (IF resp.ok THEN PersistError ELSE resp.error)
         /\ snapshots' = snapshots
         /\ changelogs' = changelogs
         /\ getApisToCheck(apis', now) = getApisToCheck(apis, now)]_vars

\* C21 witness: a connectivity test has just failed on a target that is due,
\* and the target is still due with its earlier lastChecked.
C21_Witness ==
  \E id \in DOMAIN apis :
    /\ apis[id].healthStatus = "unhealthy"
    /\ apis[id].lastError \in FetchErrors
    /\ apis[id].lastHealthCheck = now
    /\ apis[id].lastChecked < now
    /\ id \in getApisToCheck(apis, now)

====
